---- MODULE Spec2Model ----
(***************************************************************************)
(* Ingestion orchestrator of makino-ai-companion:                          *)
(*   scripts/knowledge_pipeline.py        (KnowledgePipeline, PipelineReport)*)
(*   src/knowledge_base/content_analyzer.py (ContentAnalyzer,               *)
(*                                           generate_entry_id)             *)
(*   src/knowledge_base/media_processor.py  (classify_file, process_file)   *)
(*                                                                         *)
(* The run is one asyncio event loop.  A per-file pipeline runs without    *)
(* interruption between two suspension points, so each action below is the *)
(* code executed by one task between two awaits that really suspend.       *)
(* Percentages stand for the floats of the code (0.6 is 60).               *)
(***************************************************************************)
EXTENDS Integers, Sequences, FiniteSets, TLC

\* ---------------------------------------------------------------- bounds
MaxFiles == 2
MaxWorkers == 2

\* ticks of the clock per second, last tick, invocations of the program
TicksPerSecond == 2
MaxClock == 4
MaxRuns == 3

\* ------------------------------------------------------ program constants
RetryCount == 3
ReviewThreshold == 60
VerifySkipConfidence == 95
UnknownCategoryConfidence == 40

Files == 1..MaxFiles

\* extension classes of the files 1.txt, 2.docx, 3.mov, 4.pdf, ...
TypeSeq == <<"text", "docx", "video", "pdf">>

FileType(f) == TypeSeq[((f - 1) % Len(TypeSeq)) + 1]

Stem(f) == ToString(f)

ID_PREFIX_MAP(file_type) ==
    CASE file_type = "video" -> "VID"
      [] file_type = "audio" -> "AUD"
      [] file_type = "pdf"   -> "BK"
      [] file_type = "docx"  -> "ML"
      [] file_type = "text"  -> "ML"
      [] file_type = "image" -> "PR"
      [] OTHER               -> "ML"

KNOWLEDGE_DIR_MAP(prefix) ==
    CASE prefix = "VID" -> "seminars"
      [] prefix = "AUD" -> "trainings"
      [] prefix = "QA"  -> "qa"
      [] prefix = "ML"  -> "articles"
      [] prefix = "BK"  -> "articles"
      [] prefix = "TL"  -> "sales_tools"
      [] prefix = "NL"  -> "articles"
      [] prefix = "PR"  -> "sales_tools"
      [] OTHER          -> "articles"

\* --type filter of the CLI; NoFilter is "no --type given"
NoFilter == "none"

Filters == {NoFilter, "docx", "media"}

_matches_filter(file_type_filter, file_type) ==
    IF file_type_filter = NoFilter
    THEN TRUE
    ELSE CASE file_type_filter = "text"  -> file_type \in {"text", "pdf", "docx"}
           [] file_type_filter = "video" -> file_type \in {"video"}
           [] file_type_filter = "audio" -> file_type \in {"audio"}
           [] file_type_filter = "image" -> file_type \in {"image"}
           [] file_type_filter = "media" -> file_type \in {"video", "audio", "image"}
           [] OTHER                      -> file_type = file_type_filter

\* ------------------------------------------------------------ entry ids
\* An id string PREFIX_n1_n2... is its prefix and the sequence of its
\* numeric runs (what re.findall(r"(\d+)") returns, read as integers).
NoId == [prefix |-> "", nums |-> <<>>]

Max2(a, b) == IF a >= b THEN a ELSE b

RECURSIVE MaxOfSeq(_)
MaxOfSeq(s) == IF s = <<>> THEN 0 ELSE Max2(Head(s), MaxOfSeq(Tail(s)))

RECURSIVE MaxOverIds(_)
MaxOverIds(ids) ==
    IF ids = {} THEN 0
    ELSE LET i == CHOOSE x \in ids : TRUE
         IN  Max2(MaxOfSeq(i.nums), MaxOverIds(ids \ {i}))

\* str.startswith on the alphabetic head of an id: "MLX_..." starts with "ML"
StartsWith(idPrefix, prefix) ==
    \/ idPrefix = prefix
    \/ <<idPrefix, prefix>> \in {<<"MLX", "ML">>}

\* faulty variant of ScannedIds: the scan reads no header
ScannedIds_None(kb, prefix) == {}

\* ids the scan obtains: header readable, frontmatter well formed, id declared
ScannedIds(kb, prefix) ==
    {e.hdr : e \in {x \in kb : x.hdr # NoId /\ StartsWith(x.hdr.prefix, prefix)}}

\* faulty variant of max_num: only the first numeric run of an id is read
max_num_FirstRun(kb, prefix) ==
    MaxOverIds({[prefix |-> i.prefix, nums |-> <<Head(i.nums)>>] :
                   i \in ScannedIds(kb, prefix)})

max_num(kb, prefix) == MaxOverIds(ScannedIds(kb, prefix))

\* faulty variant of next_num: the scan's maximum is handed out again
next_num_NoIncrement(kb, prefix) == max_num(kb, prefix)

next_num(kb, prefix) == max_num(kb, prefix) + 1

FormatId(prefix, ym, n) ==
    IF prefix = "QA" THEN [prefix |-> prefix, nums |-> <<n>>]
    ELSE IF prefix \in {"VID", "AUD"} THEN [prefix |-> prefix, nums |-> <<ym, n, 1>>]
    ELSE IF prefix = "BK" THEN [prefix |-> prefix, nums |-> <<n, 1>>]
    ELSE [prefix |-> prefix, nums |-> <<ym, n>>]

\* faulty variant of generate_entry_id: the scan misses the entries written
\* during the run, as if it had been made before the writes of other tasks
generate_entry_id_Stale(prefix, kb, ym) ==
    FormatId(prefix, ym, next_num({e \in kb : e.body = 0}, prefix))

generate_entry_id(prefix, kb, ym) == FormatId(prefix, ym, next_num(kb, prefix))

\* the counter of an id in the format of its prefix
Counter(id) ==
    IF id.prefix \in {"QA", "BK"} THEN id.nums[1] ELSE id.nums[2]


\* --------------------------------------------------- knowledge base files
\* the month of the first allocation of a run
StartYM == 202611

\* datetime.now().strftime("%Y%m") at the calls of generate_entry_id
Dates == {StartYM, StartYM + 1}

\* An entry file is its path (dir, filename id, title), the id its header
\* declares (NoId: unreadable file or malformed frontmatter) and its body: the
\* source file it was rendered from, 0 for content older than the run.
Entry(dir, id, title, hdr, body) ==
    [dir |-> dir, id |-> id, title |-> title, hdr |-> hdr, body |-> body]

OldEntries ==
    { Entry("articles", [prefix |-> "ML", nums |-> <<StartYM, 2>>], "T1",
            [prefix |-> "ML", nums |-> <<StartYM, 2>>], 0),
      Entry("articles", [prefix |-> "ML", nums |-> <<StartYM, 1>>], "T1",
            NoId, 0) }

PathOf(e) == [dir |-> e.dir, id |-> e.id, title |-> e.title]

\* faulty variant of PathExists: the duplicate check never finds the file
PathExists_Never(kb, path) == FALSE

\* output_path.exists()
PathExists(kb, path) == \E e \in kb : PathOf(e) = path

\* faulty variant of write_text: nothing is written
write_text_Nothing(kb, entry) == kb

\* output_path.write_text(markdown): creates the file or replaces its content
write_text(kb, entry) == {e \in kb : PathOf(e) # PathOf(entry)} \cup {entry}

\* ------------------------------------------------- analysis collaborator
VALID_CATEGORIES == {"corp", "doctor", "inherit", "mind", "skill", "compliance"}

\* parsed pass-1 answers that carry "category" and "confidence"
Pass1Answers ==
    { [category |-> "corp-tax", title |-> "T1", confidence |-> 80] }

\* what one call of client.messages.create plus parsing ends in
ResponseKinds == {"ok", "missing", "malformed", "error"}

\* parsed pass-3 answers: quality score and corrections ("" is no correction)
Verifications ==
    { [quality_score |-> 50, category |-> "doctor", title |-> ""] }

AnalysisResult ==
    [category |-> "", title |-> "", confidence |-> 0, quality_score |-> 0,
     id_prefix |-> "", knowledge_dir |-> "", needs_manual_review |-> FALSE,
     review_reasons |-> <<>>, error |-> ""]

\* "c in value or value in c" over the category vocabulary of the model
Contains(a, b) == <<a, b>> \in {<<"corp-tax", "corp">>}

_fuzzy_match(value, candidates) ==
    IF value = "" THEN ""
    ELSE IF value \in candidates THEN value
    ELSE IF \E c \in candidates : Contains(value, c) \/ Contains(c, value)
         THEN CHOOSE c \in candidates : Contains(value, c) \/ Contains(c, value)
         ELSE ""

_validate_and_fix_labels(res) ==
    IF res.category \in VALID_CATEGORIES THEN res
    ELSE LET best == _fuzzy_match(res.category, VALID_CATEGORIES)
         IN  IF best # "" THEN [res EXCEPT !.category = best]
             ELSE [res EXCEPT !.needs_manual_review = TRUE,
                              !.review_reasons = Append(@, "unknown_category"),
                              !.category = "skill",
                              !.confidence =
                                  IF @ <= UnknownCategoryConfidence
                                  THEN @ ELSE UnknownCategoryConfidence]

\* fallback of _pass1_classify after the last attempt
Pass1Fallback == [category |-> "", title |-> "TXT", confidence |-> 0]

ApplyClassification(res, classification) ==
    _validate_and_fix_labels(
        [res EXCEPT !.category = classification.category,
                    !.title = classification.title,
                    !.confidence = classification.confidence])

ApplyVerification(res, v) ==
    LET r1 == [res EXCEPT !.quality_score = v.quality_score]
        r2 == IF v.category # "" /\ v.category \in VALID_CATEGORIES
              THEN [r1 EXCEPT !.category = v.category] ELSE r1
        r3 == IF v.title # "" THEN [r2 EXCEPT !.title = v.title] ELSE r2
    IN  r3

\* faulty variant of Finalize: the review verdict is never given
Finalize_NoVerdict(res, file_type) ==
    [res EXCEPT !.id_prefix = ID_PREFIX_MAP(file_type),
                !.knowledge_dir = KNOWLEDGE_DIR_MAP(ID_PREFIX_MAP(file_type))]

\* post-processing of _analyze_internal: prefix, directory, review verdict
Finalize(res, file_type) ==
    LET r1 == [res EXCEPT !.id_prefix = ID_PREFIX_MAP(file_type),
                          !.knowledge_dir = KNOWLEDGE_DIR_MAP(ID_PREFIX_MAP(file_type))]
        r2 == IF r1.confidence < ReviewThreshold
              THEN [r1 EXCEPT !.needs_manual_review = TRUE,
                              !.review_reasons = Append(@, "low_confidence")]
              ELSE r1
        r3 == IF r2.quality_score < ReviewThreshold /\ r2.quality_score > 0
              THEN [r2 EXCEPT !.needs_manual_review = TRUE,
                              !.review_reasons = Append(@, "low_quality")]
              ELSE r2
    IN  r3

IsLastAttempt(attempt) == attempt >= RetryCount - 1

_sanitize_filename(name) == IF name = "" THEN "untitled" ELSE name


\* ------------------------------------------------------------------ state
VARIABLES
    workers,               \* --workers, the analyzer's max_concurrent
    dry_run,               \* --dry-run
    file_type_filter,      \* --type
    verification_enabled,  \* not --no-verify
    runpc,                 \* position of KnowledgePipeline.run
    files,                 \* the list _discover_files returned
    fs,                    \* lifecycle directories: name -> files in it
    tmp_images,            \* intake/tmp_images exists
    saved,                 \* report file of this run written
    kb,                    \* entry files under knowledge/
    kb0,                   \* the entry files the run started with
    report,                \* PipelineReport
    sem,                   \* value of ContentAnalyzer.semaphore
    waiters,               \* tasks blocked in semaphore.acquire, FIFO
    pc,                    \* position of each _process_single_file task
    attempt,               \* loop variable of the retry loop a task is in
    extracted,             \* what process_file returned to the task
    result,                \* the task's AnalysisResult
    hist,                  \* per file: what the collaborators and the OS did
    clock,                 \* datetime.now(), in ticks
    run_ids                \* per invocation so far: when its report was made, its run_id

vars == <<workers, dry_run, file_type_filter, verification_enabled,
          runpc, files, fs, tmp_images, saved, kb, kb0, report, sem, waiters,
          pc, attempt, extracted, result, hist, clock, run_ids>>

\* PipelineReport.__init__: the timestamp cut to whole seconds
strftime(t) == t \div TicksPerSecond

\* the invocations of the program so far
invocations == <<clock, run_ids>>

config == <<workers, dry_run, file_type_filter, verification_enabled, kb0>>

LifecycleDirs == {"raw", "processing", "completed", "failed"}

\* faults of the operating system a step may meet
StageFaults == {"claim", "write"}

MoveFaults == {"complete", "fail"}

PipelineReport ==
    [input_files |-> 0, completed_at |-> FALSE, success |-> <<>>, failed |-> <<>>,
     skipped_duplicate |-> <<>>, manual_review |-> <<>>,
     stats |-> [by_category |-> <<>>, by_type |-> <<>>]]

NoHist == [calls1 |-> 0, transient1 |-> 0, faults |-> {}]

Init ==
    /\ workers \in 1..MaxWorkers
    /\ dry_run \in BOOLEAN
    /\ file_type_filter \in Filters
    /\ verification_enabled \in BOOLEAN
    /\ runpc = "init"
    /\ files = <<>>
    /\ fs = [d \in LifecycleDirs |-> IF d = "raw" THEN Files ELSE {}]
    /\ tmp_images = FALSE
    /\ saved = FALSE
    /\ kb \in SUBSET OldEntries
    /\ kb0 = kb
    /\ report = PipelineReport
    /\ sem = workers
    /\ waiters = <<>>
    /\ pc = [f \in Files |-> "new"]
    /\ attempt = [f \in Files |-> 0]
    /\ extracted = [f \in Files |-> "none"]
    /\ result = [f \in Files |-> AnalysisResult]
    /\ hist = [f \in Files |-> NoHist]
    /\ clock = 0
    /\ run_ids = <<[at |-> clock, run_id |-> strftime(clock)]>>

\* the part of the state a task step works on
World ==
    [fs |-> fs, kb |-> kb, report |-> report, sem |-> sem, waiters |-> waiters,
     pc |-> pc, attempt |-> attempt, extracted |-> extracted, result |-> result,
     hist |-> hist]

Becomes(W) ==
    /\ fs' = W.fs
    /\ kb' = W.kb
    /\ report' = W.report
    /\ sem' = W.sem
    /\ waiters' = W.waiters
    /\ pc' = W.pc
    /\ attempt' = W.attempt
    /\ extracted' = W.extracted
    /\ result' = W.result
    /\ hist' = W.hist

Noted(W, f, fault) == [W EXCEPT !.hist[f].faults = @ \cup {fault}]

\* Old(f) is the file of the same name as f that an earlier run left in
\* processing/, completed/ or failed/; Old(Old(f)) is f
Old(f) == 0 - f

\* faulty variant of Moved: a copy that leaves the source in place
Moved_Copy(dirs, f, src, dst) == [dirs EXCEPT ![dst] = @ \cup {f}]

\* shutil.move on one filesystem: an atomic rename, which replaces a file of
\* the same name in the destination directory
Moved(dirs, f, src, dst) ==
    [dirs EXCEPT ![src] = @ \ {f}, ![dst] = (@ \ {Old(f)}) \cup {f}]


\* ------------------------------------------------- _process_single_file
\* faulty variant of locked: the semaphore admits every task
locked_Never(W) == FALSE

\* asyncio.Semaphore.locked(): no free slot, or tasks already queued
locked(W) == W.sem <= 0 \/ W.waiters # <<>>

\* the coroutine is left: its frame (loop variable, content, result) is gone
Left(W, f, how) ==
    [W EXCEPT !.pc[f] = how, !.attempt[f] = 0, !.extracted[f] = "none",
              !.result[f] = AnalysisResult]

\* an exception leaves the task: asyncio.gather hands it to run()
Escaped(W, f) == Left(W, f, "crashed")

\* faulty variant of FailTransition: a file that was never claimed is
\* recorded but stays in raw/
FailTransition_NoRawMove(W, f, error, io) ==
    LET recorded(V) ==
            Left([V EXCEPT !.report.failed =
                              Append(@, [source |-> f, error |-> error])],
                 f, "finished")
    IN  IF f \in W.fs["processing"]
        THEN IF "fail" \in io
             THEN Escaped(Noted(W, f, "fail_io"), f)
             ELSE recorded([W EXCEPT !.fs = Moved(@, f, "processing", "failed")])
        ELSE recorded(W)

\* faulty variant of FailTransition: the file is moved but the failure is
\* not appended to report.failed
FailTransition_NoRecord(W, f, error, io) ==
    IF f \in W.fs["processing"]
    THEN IF "fail" \in io
         THEN Escaped(Noted(W, f, "fail_io"), f)
         ELSE Left([W EXCEPT !.fs = Moved(@, f, "processing", "failed")], f, "finished")
    ELSE IF f \in W.fs["raw"]
    THEN IF "fail" \in io
         THEN Escaped(Noted(W, f, "fail_io"), f)
         ELSE Left([W EXCEPT !.fs = Moved(@, f, "raw", "failed")], f, "finished")
    ELSE Left(W, f, "finished")

\* faulty variant of FailTransition: a file found neither in processing/
\* nor in raw/ is not recorded
FailTransition_VanishedUnrecorded(W, f, error, io) ==
    LET recorded(V) ==
            Left([V EXCEPT !.report.failed =
                              Append(@, [source |-> f, error |-> error])],
                 f, "finished")
    IN  IF f \in W.fs["processing"]
        THEN IF "fail" \in io
             THEN Escaped(Noted(W, f, "fail_io"), f)
             ELSE recorded([W EXCEPT !.fs = Moved(@, f, "processing", "failed")])
        ELSE IF f \in W.fs["raw"]
        THEN IF "fail" \in io
             THEN Escaped(Noted(W, f, "fail_io"), f)
             ELSE recorded([W EXCEPT !.fs = Moved(@, f, "raw", "failed")])
        ELSE Left(W, f, "finished")

\* the except branch: move to failed/, then append to report.failed
FailTransition(W, f, error, io) ==
    LET recorded(V) ==
            Left([V EXCEPT !.report.failed =
                              Append(@, [source |-> f, error |-> error])],
                 f, "finished")
    IN  IF f \in W.fs["processing"]
        THEN IF "fail" \in io
             THEN Escaped(Noted(W, f, "fail_io"), f)
             ELSE recorded([W EXCEPT !.fs = Moved(@, f, "processing", "failed")])
        ELSE IF Old(f) \in W.fs["processing"]
        THEN IF "fail" \in io
             THEN Escaped(Noted(W, f, "fail_io"), f)
             ELSE recorded([W EXCEPT !.fs = Moved(@, Old(f), "processing", "failed")])
        ELSE IF f \in W.fs["raw"]
        THEN IF "fail" \in io
             THEN Escaped(Noted(W, f, "fail_io"), f)
             ELSE recorded([W EXCEPT !.fs = Moved(@, f, "raw", "failed")])
        ELSE recorded(W)

\* stages 4 and 5: id, markdown, duplicate check, write, move, record
StoreStage(W, f, ym, io) ==
    LET res == W.result[f]
        entry_id == generate_entry_id(res.id_prefix, W.kb, ym)
        safe_title == _sanitize_filename(IF res.title # "" THEN res.title ELSE Stem(f))
        output_path == [dir |-> res.knowledge_dir, id |-> entry_id, title |-> safe_title]
        markdown == Entry(output_path.dir, entry_id, safe_title, entry_id, f)
        record == [source |-> f, output |-> output_path, category |-> res.category,
                   confidence |-> res.confidence, quality_score |-> res.quality_score,
                   entry_id |-> entry_id]
    IN  IF PathExists(W.kb, output_path)
        THEN LET W1 == [Noted(W, f, "duplicate") EXCEPT
                           !.report.skipped_duplicate =
                               Append(@, [source |-> f, output |-> output_path,
                                          reason |-> "exists"])]
             IN  IF "complete" \in io
                 THEN FailTransition(Noted(W1, f, "complete_io"), f, "complete_io", io)
                 ELSE Left([W1 EXCEPT !.fs = Moved(@, f, "processing", "completed")],
                           f, "finished")
        ELSE IF "write" \in io
        THEN FailTransition(Noted(W, f, "write_io"), f, "write_io", io)
        ELSE LET W1 == [W EXCEPT !.kb = write_text(@, markdown)]
             IN  IF "complete" \in io
                 THEN FailTransition(Noted(W1, f, "complete_io"), f, "complete_io", io)
                 ELSE LET W2 == [W1 EXCEPT !.fs = Moved(@, f, "processing", "completed")]
                          W3 == IF res.needs_manual_review
                                THEN [W2 EXCEPT !.report.manual_review =
                                         Append(@, [record |-> record,
                                                    reason |-> res.review_reasons])]
                                ELSE W2
                      IN  Left([W3 EXCEPT !.report.success = Append(@, record)],
                               f, "finished")

\* analyze() returned a result without error: the semaphore is released,
\* then the store stage runs
Analyzed(W, f, res, ym, io) ==
    StoreStage([W EXCEPT !.sem = @ + 1, !.result[f] = res], f, ym, io)

\* faulty variant of AnalysisFailed: the slot is kept when the analysis
\* ends with an error
AnalysisFailed_NoRelease(W, f, error, io) ==
    FailTransition(
        [Noted(W, f, error) EXCEPT
            !.result[f] = [@ EXCEPT !.error = error, !.needs_manual_review = TRUE,
                                    !.review_reasons = Append(@, error)]],
        f, error, io)

\* analyze() returned a result with result.error set (early return or the
\* except branch of _analyze_internal): release, then RuntimeError(error)
AnalysisFailed(W, f, error, io) ==
    FailTransition(
        [Noted(W, f, error) EXCEPT
            !.sem = @ + 1,
            !.result[f] = [@ EXCEPT !.error = error, !.needs_manual_review = TRUE,
                                    !.review_reasons = Append(@, error)]],
        f, error, io)

\* the length check after _preprocess, then the first pass-1 call
CheckText(W, f, short, io) ==
    IF short
    THEN AnalysisFailed(W, f, "short_text", io)
    ELSE [W EXCEPT !.pc[f] = "pass1", !.attempt[f] = 0, !.extracted[f] = "long"]

\* _analyze_internal up to its first suspension, the semaphore being held
EnterAnalysis(W, f, io) ==
    IF W.extracted[f] = "media"
    THEN [W EXCEPT !.pc[f] = "pre"]
    ELSE CheckText(W, f, W.extracted[f] = "short", io)

\* pass 3 is called only with verification on and confidence below 0.95
NeedsPass3(res, verify) == verify /\ res.confidence < VerifySkipConfidence

StoreFaults == {"write", "complete", "fail"}

\* ---------------------------------------------------------------- actions
RECURSIVE SortedSeq(_)
SortedSeq(S) ==
    IF S = {} THEN <<>>
    ELSE LET m == CHOOSE x \in S : \A y \in S : x <= y
         IN  <<m>> \o SortedSeq(S \ {m})

Range(s) == {s[i] : i \in 1..Len(s)}

_discover_files(dirs, filter) ==
    SortedSeq({f \in dirs["raw"] : _matches_filter(filter, FileType(f))})

\* run() up to the gather: directories, discovery, empty and dry-run exits
RunStart ==
    /\ runpc = "init"
    /\ tmp_images' = TRUE
    /\ files' = _discover_files(fs, file_type_filter)
    /\ report' = [report EXCEPT !.input_files = Len(files'),
                                !.completed_at = (files' = <<>> \/ dry_run)]
    /\ runpc' = IF files' = <<>> \/ dry_run THEN "done" ELSE "gather"
    /\ UNCHANGED <<config, invocations, fs, saved, kb, sem, waiters, pc,
                   attempt, extracted, result, hist>>

AllStarted == \A g \in Range(files) : pc[g] # "new"

TaskFrame == UNCHANGED <<config, invocations, runpc, files, tmp_images, saved>>

\* what process_file returns: usable text, text too short, content that
\* needs preprocessing, or None or the error sentinel
Extractions == {"long", "short", "media", "error"}

\* process_file has returned in the claimed task: the checks on the content,
\* then analyze() up to its first suspension
AfterExtraction(W, f, ext, io) ==
    IF ext = "error"
    THEN FailTransition(Noted(W, f, "extract_error"), f, "extract_error", io)
    ELSE LET W2 == [W EXCEPT !.extracted[f] = ext]
         IN  IF ~locked(W2)
             THEN EnterAnalysis([W2 EXCEPT !.sem = @ - 1], f, io)
             ELSE [W2 EXCEPT !.pc[f] = "sem", !.waiters = Append(@, f)]

\* first step of a task: claim, extraction, semaphore, start of the analysis.
\* gather starts the tasks in list order, each up to its first suspension.
Start(f, faults) ==
    /\ runpc = "gather"
    /\ f \in Range(files)
    /\ pc[f] = "new"
    /\ \A g \in Range(files) : g < f => pc[g] # "new"
    /\ \E io \in SUBSET (faults \cap {"claim", "fail"}), ext \in Extractions :
          Becomes(
            IF "claim" \in io \/ f \notin fs["raw"]
            THEN FailTransition(Noted(World, f, "claim_io"), f, "claim_io", io)
            ELSE AfterExtraction([World EXCEPT !.fs = Moved(@, f, "raw", "processing")],
                                 f, ext, io))
    /\ TaskFrame

\* a blocked task is woken by a release and enters the analysis
Acquire(f, faults) ==
    /\ runpc = "gather"
    /\ AllStarted
    /\ pc[f] = "sem"
    /\ waiters # <<>>
    /\ Head(waiters) = f
    /\ sem > 0
    /\ \E io \in SUBSET (faults \cap {"fail"}) :
          Becomes(EnterAnalysis([World EXCEPT !.sem = @ - 1, !.waiters = Tail(@)],
                                f, io))
    /\ TaskFrame

\* the calls of _preprocess return (their failures are swallowed there)
PreprocessDone(f, faults) ==
    /\ runpc = "gather"
    /\ AllStarted
    /\ pc[f] = "pre"
    /\ \E io \in SUBSET (faults \cap {"fail"}), short \in BOOLEAN :
          Becomes(CheckText(World, f, short, io))
    /\ TaskFrame

\* one pass-1 call returns
Pass1Response(f, faults) ==
    /\ runpc = "gather"
    /\ AllStarted
    /\ pc[f] = "pass1"
    /\ \E kind \in ResponseKinds :
          LET W0 == [World EXCEPT !.hist[f].calls1 = @ + 1]
              W1 == [W0 EXCEPT !.hist[f].transient1 = @ + 1]
          IN  CASE kind = "ok" ->
                     \E ans \in Pass1Answers :
                        Becomes([W0 EXCEPT !.result[f] = ApplyClassification(@, ans),
                                           !.pc[f] = "pass2", !.attempt[f] = 0])
                [] kind \in {"missing", "malformed"} ->
                     Becomes(IF IsLastAttempt(attempt[f])
                             THEN [W1 EXCEPT !.result[f] =
                                                ApplyClassification(@, Pass1Fallback),
                                             !.pc[f] = "pass2", !.attempt[f] = 0]
                             ELSE [W1 EXCEPT !.attempt[f] = @ + 1])
                [] kind = "error" ->
                     \E io \in SUBSET (faults \cap {"fail"}) :
                        Becomes(AnalysisFailed(Noted(W0, f, "pass1_error"), f,
                                               "api_error", io))
    /\ TaskFrame

\* one pass-2 call returns; after the loop pass 3 is called, or it is
\* skipped and the analysis returns into the store stage
Pass2Response(f, faults) ==
    /\ runpc = "gather"
    /\ AllStarted
    /\ pc[f] = "pass2"
    /\ \E kind \in ResponseKinds :
          IF kind = "error"
          THEN \E io \in SUBSET (faults \cap {"fail"}) :
                  Becomes(AnalysisFailed(World, f, "api_error", io))
          ELSE IF kind \in {"missing", "malformed"} /\ ~IsLastAttempt(attempt[f])
          THEN Becomes([World EXCEPT !.attempt[f] = @ + 1])
          ELSE IF NeedsPass3(result[f], verification_enabled)
          THEN Becomes([World EXCEPT !.pc[f] = "pass3", !.attempt[f] = 0])
          ELSE \E io \in SUBSET (faults \cap StoreFaults), ym \in Dates :
                  Becomes(Analyzed(World, f,
                                   Finalize([result[f] EXCEPT
                                                !.quality_score = result[f].confidence],
                                            FileType(f)),
                                   ym, io))
    /\ TaskFrame

\* the pass-3 call returns; any failure of it yields quality = confidence
Pass3Response(f, faults) ==
    /\ runpc = "gather"
    /\ AllStarted
    /\ pc[f] = "pass3"
    /\ \E io \in SUBSET (faults \cap StoreFaults), ym \in Dates,
          kind \in {"ok", "error"}, v \in Verifications :
          Becomes(
            IF kind = "ok"
            THEN Analyzed(World, f,
                          Finalize(ApplyVerification(result[f], v), FileType(f)),
                          ym, io)
            ELSE Analyzed(World, f,
                          Finalize([result[f] EXCEPT !.quality_score = result[f].confidence],
                                   FileType(f)),
                          ym, io))
    /\ TaskFrame

\* attributes a KnowledgePipeline object has (set in __init__)
PipelineAttributes ==
    {"project_root", "knowledge_dir", "intake_dir", "input_dir", "processing_dir",
     "completed_dir", "failed_dir", "report_dir", "dry_run", "file_type_filter",
     "whisper_model", "image_tmp_dir", "settings", "analyzer", "report"}

CountOf(s, P(_)) == Cardinality({i \in 1..Len(s) : P(s[i])})

\* _compute_stats reads self.success
_compute_stats(success) ==
    [by_category |->
        [c \in {success[i].category : i \in 1..Len(success)} |->
            CountOf(success, LAMBDA r : r.category = c)],
     by_type |->
        [p \in {success[i].entry_id.prefix : i \in 1..Len(success)} |->
            CountOf(success, LAMBDA r : r.entry_id.prefix = p)]]

\* run() after the gather: timestamp, statistics, report file, cleanup
RunFinish ==
    /\ runpc = "gather"
    /\ \A f \in Range(files) : pc[f] = "finished"
    /\ IF "success" \in PipelineAttributes
       THEN /\ report' = [report EXCEPT !.completed_at = TRUE,
                                        !.stats = _compute_stats(report.success)]
            /\ saved' = TRUE
            /\ tmp_images' = FALSE
            /\ runpc' = "done"
       ELSE /\ report' = [report EXCEPT !.completed_at = TRUE]
            /\ saved' = saved
            /\ tmp_images' = tmp_images
            /\ runpc' = "raised"
    /\ UNCHANGED <<config, invocations, files, fs, kb, sem, waiters, pc,
                   attempt, extracted, result, hist>>

InAnalysis(f) == pc[f] \in {"pre", "pass1", "pass2", "pass3"}

\* an exception escaped a task: gather raises in run(), asyncio.run cancels
\* the tasks still pending
RunAbort ==
    /\ runpc = "gather"
    /\ AllStarted
    /\ \E f \in Range(files) : pc[f] = "crashed"
    /\ runpc' = "aborted"
    /\ pc' = [f \in Files |->
                IF f \in Range(files) /\ pc[f] \notin {"finished", "crashed"}
                THEN "cancelled" ELSE pc[f]]
    /\ attempt' = [f \in Files |-> 0]
    /\ extracted' = [f \in Files |-> "none"]
    /\ result' = [f \in Files |-> AnalysisResult]
    /\ sem' = sem + Cardinality({f \in Range(files) : InAnalysis(f)})
    /\ waiters' = <<>>
    /\ UNCHANGED <<config, invocations, files, fs, tmp_images, saved, kb, report,
                   hist>>

\* the operating system lets the moves into completed/ and failed/ succeed
Step(f) ==
    \/ Start(f, StageFaults)
    \/ Acquire(f, StageFaults)
    \/ PreprocessDone(f, StageFaults)
    \/ Pass1Response(f, StageFaults)
    \/ Pass2Response(f, StageFaults)
    \/ Pass3Response(f, StageFaults)

Next ==
    \/ RunStart
    \/ \E f \in Files : Step(f)
    \/ RunFinish

Spec == Init /\ [][Next]_vars

\* any move may fail
StepIO(f) ==
    \/ Start(f, StageFaults \cup MoveFaults)
    \/ Acquire(f, StageFaults \cup MoveFaults)
    \/ PreprocessDone(f, StageFaults \cup MoveFaults)
    \/ Pass1Response(f, StageFaults \cup MoveFaults)
    \/ Pass2Response(f, StageFaults \cup MoveFaults)
    \/ Pass3Response(f, StageFaults \cup MoveFaults)

NextIO ==
    \/ RunStart
    \/ \E f \in Files : StepIO(f)
    \/ RunFinish
    \/ RunAbort

SpecIO == Init /\ [][NextIO]_vars

TypeOK ==
    /\ runpc \in {"init", "gather", "done", "raised", "aborted"}
    /\ sem \in 0..MaxWorkers
    /\ \A f \in Files : pc[f] \in {"new", "extract", "sem", "pre", "pass1", "pass2",
                                   "pass3", "finished", "crashed", "cancelled"}


\* ================================================================= claims
Discovered == Range(files)

\* the per-file pipelines of the run are over and run() has gone on
RunEnded == runpc \in {"done", "raised", "aborted"}

\* no per-file pipeline of the gather is running any more
AllOver ==
    /\ runpc \in {"gather", "raised", "aborted"}
    /\ \A f \in Discovered : pc[f] \in {"finished", "crashed", "cancelled"}

DirsOf(f) == {d \in LifecycleDirs : f \in fs[d]}

Sources(list) == {list[i].source : i \in 1..Len(list)}

RecordsOf(list, f) == {i \in 1..Len(list) : list[i].source = f}

\* what report.success carries for file f
SuccessOf(f) == {report.success[i] : i \in RecordsOf(report.success, f)}

\* faults that raise inside the pipeline of a file
Raising == {"claim_io", "extract_error", "short_text", "api_error", "write_io"}

Raised(f) == hist[f].faults \cap Raising # {}

Terminal(f) == DirsOf(f) \in {{"completed"}, {"failed"}}

C2_CountConservation ==
    (~dry_run /\ AllOver /\ \A f \in Discovered : pc[f] = "finished") =>
        Len(report.success) + Len(report.failed) + Len(report.skipped_duplicate)
            = report.input_files

C4_EntryIdsUnique ==
    \A e1, e2 \in kb :
        (e1 # e2 /\ e1.hdr # NoId /\ e2.hdr # NoId /\ e1.hdr.prefix = e2.hdr.prefix)
            => /\ e1.hdr # e2.hdr
               /\ Counter(e1.hdr) # Counter(e2.hdr)

C4_Witness ==
    /\ workers >= 2
    /\ \E e0, e1, e2 \in kb :
          /\ e0.body = 0 /\ e0.hdr # NoId
          /\ e1.body \in Files /\ e2.body \in Files /\ e1 # e2
          /\ e0.hdr.prefix = e1.hdr.prefix /\ e1.hdr.prefix = e2.hdr.prefix

\* ---------------------------------------------------------------------- C5
\* C5: if exactly one discovered file B raises at a stage (claim, extract,
\* analyze, render or store), then when the pipelines are over B is in
\* failed/ with its exception message in report.failed and has left no
\* entry, every other file is in completed/ with one record in success or
\* skipped_duplicate, and no pipeline was cut short or cancelled.
C5_FailureIsolation ==
    AllOver =>
        \A B \in Discovered :
            (Raised(B) /\ \A A \in Discovered \ {B} : ~Raised(A)) =>
                /\ runpc # "aborted"
                /\ \A f \in Discovered : pc[f] = "finished"
                /\ DirsOf(B) = {"failed"}
                /\ Cardinality(RecordsOf(report.failed, B)) = 1
                /\ \A i \in RecordsOf(report.failed, B) :
                      report.failed[i].error \in hist[B].faults
                /\ B \notin Sources(report.success) \cup Sources(report.skipped_duplicate)
                /\ ~\E e \in kb : e.body = B
                /\ \A A \in Discovered \ {B} :
                      /\ DirsOf(A) = {"completed"}
                      /\ Cardinality(RecordsOf(report.success, A))
                           + Cardinality(RecordsOf(report.skipped_duplicate, A)) = 1
                      /\ A \notin Sources(report.failed)
                      /\ A \in Sources(report.success) <=> \E e \in kb : e.body = A

C5_Witness ==
    /\ AllOver
    /\ \E B \in Discovered, A \in Discovered :
          /\ A # B
          /\ "extract_error" \in hist[B].faults
          /\ ~Raised(A)
          /\ B \in fs["failed"]
          /\ A \in Sources(report.success)

\* ---------------------------------------------------------------------- C6
\* C6: the move to failed/ in the error path never raises: no exception
\* leaves a per-file pipeline, no pipeline is cancelled for it, and a file
\* whose move to failed/ failed is still recorded in report.failed.
C6_FailTransitionNeverRaises ==
    \A f \in Files :
        /\ pc[f] \notin {"crashed", "cancelled"}
        /\ "fail_io" \in hist[f].faults => f \in Sources(report.failed)

\* ---------------------------------------------------------------------- C7
\* C7: entries that were there before the run keep their content; a file
\* whose destination existed at the store step gets one skipped_duplicate
\* record naming that destination, writes nothing, and is moved to
\* completed/, not failed/.
C7_DuplicateNonDestructive ==
    /\ \A e \in kb0 : e \in kb
    /\ \A f \in Files :
          ("duplicate" \in hist[f].faults) =>
              /\ pc[f] = "finished"
              /\ DirsOf(f) = {"completed"}
              /\ Cardinality(RecordsOf(report.skipped_duplicate, f)) = 1
              /\ \A i \in RecordsOf(report.skipped_duplicate, f) :
                    \E e \in kb : PathOf(e) = report.skipped_duplicate[i].output
              /\ f \notin Sources(report.failed) \cup Sources(report.success)
              /\ ~\E e \in kb : e.body = f

C7_Witness ==
    \E f \in Files :
        /\ "duplicate" \in hist[f].faults
        /\ f \in fs["completed"]
        /\ f \in Sources(report.skipped_duplicate)
        /\ \E e \in kb0 : \E i \in RecordsOf(report.skipped_duplicate, f) :
              PathOf(e) = report.skipped_duplicate[i].output

\* ---------------------------------------------------------------------- C8
\* transient failures of the pass-1 call of file f: unparsable or incomplete
\* answers, and a network error or timeout of the call
Transients(f) ==
    hist[f].transient1 + (IF "pass1_error" \in hist[f].faults THEN 1 ELSE 0)

\* nothing but transient failures of the pass-1 call went wrong for f
OnlyTransient(f) == hist[f].faults \in {{}, {"pass1_error", "api_error"}}

\* C8: a file never gets more than R pass-1 calls; if the collaborator fails
\* transiently exactly R-1 times for it (and would then answer) and nothing
\* else goes wrong, the file ends as Success after exactly R calls, carrying
\* the answer.
C8_RetryThenSucceed ==
    \A f \in Files :
        /\ hist[f].calls1 <= RetryCount
        /\ (pc[f] = "finished" /\ OnlyTransient(f) /\ Transients(f) = RetryCount - 1)
              => /\ hist[f].calls1 = RetryCount
                 /\ DirsOf(f) = {"completed"}
                 /\ Cardinality(RecordsOf(report.success, f)) = 1
                 /\ f \notin Sources(report.failed)
                 /\ \A r \in SuccessOf(f) :
                       \E ans \in Pass1Answers : r.confidence = ans.confidence

\* ---------------------------------------------------------------------- C9
\* C9: if every pass-1 call of a file fails transiently and nothing else
\* goes wrong for it, the file ends as Success (entry written, source in
\* completed/) with the fallback classification (confidence 0, flagged for
\* manual review), never as Failed.
C9_RetryThenDegrade ==
    \A f \in Files :
        (/\ pc[f] = "finished"
         /\ OnlyTransient(f)
         /\ hist[f].calls1 >= 1
         /\ Transients(f) = hist[f].calls1)
            => /\ DirsOf(f) = {"completed"}
               /\ Cardinality(RecordsOf(report.success, f)) = 1
               /\ f \notin Sources(report.failed)
               /\ \E e \in kb : e.body = f
               /\ \A r \in SuccessOf(f) :
                     /\ r.confidence = 0
                     /\ \E i \in 1..Len(report.manual_review) :
                           report.manual_review[i].record = r

\* --------------------------------------------------------------------- C10
\* C10: at every instant each file the run started with is in exactly one of
\* raw/, processing/, completed/, failed/.
C10_SingleLocation ==
    \A f \in Files : Cardinality(DirsOf(f)) = 1

C10_Witness ==
    /\ fs["processing"] # {}
    /\ fs["failed"] # {}
    /\ \E f \in fs["processing"] : InAnalysis(f)

\* --------------------------------------------------------------------- C11
\* C11: in every non-dry run with at least one discovered file, once all
\* per-file pipelines have finished and run() has gone on, the report is
\* finalized (completion timestamp set, statistics computed from the success
\* list) and persisted; and the report is never persisted while a discovered
\* file is still in raw/ or processing/.
C11_ReportFinalized ==
    /\ (~dry_run /\ files # <<>> /\ RunEnded
          /\ \A f \in Discovered : pc[f] = "finished")
          => /\ report.completed_at
             /\ report.stats = _compute_stats(report.success)
             /\ saved
    /\ saved => \A f \in Discovered : f \notin fs["raw"] \cup fs["processing"]

\* --------------------------------------------------------------------- C12
\* the identifiers generate_entry_id returned in this run, as far as the
\* report shows them: to stored files and to files skipped as duplicates
IssuedTo(f) ==
    {report.success[i].entry_id : i \in RecordsOf(report.success, f)}
        \cup {report.skipped_duplicate[i].output.id :
                 i \in RecordsOf(report.skipped_duplicate, f)}

\* C12: an identifier returned for a prefix is never returned again by a
\* later call for that prefix: two files of a run never get the same
\* identifier, also when one of them ended as SkippedDuplicate, and a scan
\* after the run does not return an identifier issued during the run.
C12_IdNeverReissued ==
    /\ \A f, g \in Files : f # g => IssuedTo(f) \cap IssuedTo(g) = {}
    /\ RunEnded =>
          \A f \in Files : \A id \in IssuedTo(f) : \A ym \in Dates :
              generate_entry_id(id.prefix, kb, ym) # id

\* --------------------------------------------------------------------- C13
\* bound on the allocations of the id harness
MaxAllocations == 2

\* entry files of a knowledge base with ids of every format: a counter only,
\* a page suffix larger than the counter, a year-month, a longer prefix that
\* starts with ML, and a file whose header the scan cannot read
IdEntries ==
    { Entry("qa", [prefix |-> "QA", nums |-> <<7>>], "T1",
            [prefix |-> "QA", nums |-> <<7>>], 0),
      Entry("articles", [prefix |-> "BK", nums |-> <<2, 45>>], "T1",
            [prefix |-> "BK", nums |-> <<2, 45>>], 0),
      Entry("seminars", [prefix |-> "VID", nums |-> <<StartYM, 3, 1>>], "T1",
            [prefix |-> "VID", nums |-> <<StartYM, 3, 1>>], 0),
      Entry("articles", [prefix |-> "MLX", nums |-> <<StartYM + 1, 9>>], "T1",
            [prefix |-> "MLX", nums |-> <<StartYM + 1, 9>>], 0),
      Entry("articles", [prefix |-> "ML", nums |-> <<StartYM, 2>>], "T1",
            [prefix |-> "ML", nums |-> <<StartYM, 2>>], 0),
      Entry("articles", [prefix |-> "ML", nums |-> <<StartYM + 2, 1>>], "T1",
            NoId, 0) }

IdPrefixes == {"QA", "BK", "VID", "AUD", "ML", "PR"}

\* the state after construction, over any of these knowledge bases
InitId ==
    /\ workers = 1
    /\ dry_run = FALSE
    /\ file_type_filter = NoFilter
    /\ verification_enabled = TRUE
    /\ runpc = "init"
    /\ files = <<>>
    /\ fs = [d \in LifecycleDirs |-> IF d = "raw" THEN Files ELSE {}]
    /\ tmp_images = FALSE
    /\ saved = FALSE
    /\ kb \in SUBSET IdEntries
    /\ kb0 = kb
    /\ report = PipelineReport
    /\ sem = workers
    /\ waiters = <<>>
    /\ pc = [f \in Files |-> "new"]
    /\ attempt = [f \in Files |-> 0]
    /\ extracted = [f \in Files |-> "none"]
    /\ result = [f \in Files |-> AnalysisResult]
    /\ hist = [f \in Files |-> NoHist]
    /\ clock = 0
    /\ run_ids = <<[at |-> clock, run_id |-> strftime(clock)]>>

\* one call of generate_entry_id for a prefix, followed by the write of the
\* entry that declares the id (two sequential files with the same prefix)
Allocate(prefix, ym) ==
    /\ Cardinality(kb \ kb0) < MaxAllocations
    /\ LET entry_id == generate_entry_id(prefix, kb, ym)
       IN  kb' = write_text(kb, Entry(KNOWLEDGE_DIR_MAP(prefix), entry_id, "NEW",
                                      entry_id, 0))
    /\ UNCHANGED <<config, invocations, runpc, files, fs, tmp_images, saved,
                   report, sem, waiters, pc, attempt, extracted, result, hist>>

NextId == \E prefix \in IdPrefixes, ym \in Dates : Allocate(prefix, ym)

SpecId == InitId /\ [][NextId]_vars

\* every numeric run of every id that a readable header of base declares and
\* that starts with prefix
NumericRuns(base, prefix) ==
    UNION {Range(e.hdr.nums) :
              e \in {x \in base : x.hdr # NoId /\ StartsWith(x.hdr.prefix, prefix)}}

C14_DryRunNoEffects ==
    dry_run =>
        /\ fs = [d \in LifecycleDirs |-> IF d = "raw" THEN Files ELSE {}]
        /\ ~tmp_images
        /\ kb = kb0
        /\ ~saved
        /\ report.success = <<>> /\ report.failed = <<>>
        /\ report.skipped_duplicate = <<>> /\ report.manual_review = <<>>

\* --------------------------------------------------------------------- C15
\* values of --workers: negative, zero, and the positive ones
WorkerLimits == (0 - 1)..MaxWorkers

\* construction with any worker limit: asyncio.Semaphore(value) raises
\* ValueError for value < 0, so that no pipeline object exists and run() is
\* never called; Semaphore(0) is constructed and is locked from the start
InitN ==
    /\ workers \in WorkerLimits
    /\ dry_run \in BOOLEAN
    /\ file_type_filter \in Filters
    /\ verification_enabled \in BOOLEAN
    /\ runpc = IF workers < 0 THEN "init_raised" ELSE "init"
    /\ files = <<>>
    /\ fs = [d \in LifecycleDirs |-> IF d = "raw" THEN Files ELSE {}]
    /\ tmp_images = FALSE
    /\ saved = FALSE
    /\ kb \in SUBSET OldEntries
    /\ kb0 = kb
    /\ report = PipelineReport
    /\ sem = IF workers < 0 THEN 0 ELSE workers
    /\ waiters = <<>>
    /\ pc = [f \in Files |-> "new"]
    /\ attempt = [f \in Files |-> 0]
    /\ extracted = [f \in Files |-> "none"]
    /\ result = [f \in Files |-> AnalysisResult]
    /\ hist = [f \in Files |-> NoHist]
    /\ clock = 0
    /\ run_ids = <<[at |-> clock, run_id |-> strftime(clock)]>>

SpecN == InitN /\ [][Next]_vars

\* every pipeline that is not over waits for a slot and no slot can come
\* free: the gather never returns
Stuck ==
    /\ runpc = "gather"
    /\ AllStarted
    /\ sem <= 0
    /\ \E f \in Discovered : pc[f] = "sem"
    /\ \A f \in Discovered : pc[f] \in {"sem", "finished"}

\* C15: for every worker limit N, also N <= 0 and N above the file count,
\* construction does not abort because of N and the run never gets stuck
\* with files waiting for a slot that cannot come free, so that it ends with
\* every discovered file in a terminal state.
C15_WorkerLimitClamped ==
    /\ runpc # "init_raised"
    /\ ~Stuck
    /\ (~dry_run /\ RunEnded) => \A f \in Discovered : Terminal(f)

\* --------------------------------------------------------------------- C16
\* C16: after the end of any run, whatever the per-file outcomes and
\* whichever way the run ended (no files, dry run, after the gather), the
\* scratch directory intake/tmp_images/ does not exist.
C16_ScratchRemoved ==
    RunEnded => ~tmp_images

\* --------------------------------------------------------------------- C17
\* one fixed input: empty knowledge base, no filter, no verification pass,
\* every file answered at the first call, no fault, one month
FixedInputs ==
    /\ kb0 = {}
    /\ file_type_filter = NoFilter
    /\ ~verification_enabled
    /\ \A f \in Files : hist[f] = [calls1 |-> 1, transient1 |-> 0, faults |-> {}]
    /\ \A e \in kb : e.hdr.nums[1] = StartYM

Stored(f) == pc[f] = "finished" /\ f \in Sources(report.success)

\* C17: for fixed inputs the report of a run is the same for every
\* scheduling of the pipelines, so it is the report of the scheduling that
\* lets the files finish one after another in list order: of two stored
\* files with the same prefix the earlier one in the list has the smaller
\* counter.
C17_ReportDeterministic ==
    FixedInputs =>
        \A f, g \in Discovered :
            (f < g /\ Stored(f) /\ Stored(g)) =>
                \A r \in SuccessOf(f), q \in SuccessOf(g) :
                    r.entry_id.prefix = q.entry_id.prefix
                        => Counter(r.entry_id) < Counter(q.entry_id)

\* the list-order report of the same inputs is the report of some scheduling
C17_ListOrderReached ==
    /\ FixedInputs
    /\ workers = MaxWorkers
    /\ \E f, g \in Discovered :
          /\ f < g /\ Stored(f) /\ Stored(g)
          /\ \A r \in SuccessOf(f), q \in SuccessOf(g) :
                /\ r.entry_id.prefix = q.entry_id.prefix
                /\ Counter(r.entry_id) < Counter(q.entry_id)

\* --------------------------------------------------------------------- C18
\* time passes
Tick ==
    /\ clock < MaxClock
    /\ clock' = clock + 1
    /\ UNCHANGED <<config, run_ids, runpc, files, fs, tmp_images, saved, kb,
                   report, sem, waiters, pc, attempt, extracted, result, hist>>

\* another invocation of the program constructs its PipelineReport
Invoke ==
    /\ Len(run_ids) < MaxRuns
    /\ run_ids' = Append(run_ids, [at |-> clock, run_id |-> strftime(clock)])
    /\ UNCHANGED <<config, clock, runpc, files, fs, tmp_images, saved, kb,
                   report, sem, waiters, pc, attempt, extracted, result, hist>>

NextRuns == Tick \/ Invoke

SpecRuns == Init /\ [][NextRuns]_vars

\* C18: every invocation obtains a run_id different from that of every other
\* invocation, so that no two runs share a report file report_<run_id>.json.
C18_RunIdUnique ==
    \A i, j \in 1..Len(run_ids) : i # j => run_ids[i].run_id # run_ids[j].run_id

\* --------------------------------------------------------------------- C19
\* the moves of a file that the lifecycle allows
LifecycleMoves ==
    {<<"raw", "processing">>, <<"raw", "failed">>,
     <<"processing", "completed">>, <<"processing", "failed">>}

\* one step of file f: it stays where it is or makes an allowed move; it goes
\* from raw/ to failed/ when the claim failed, or when it was claimed and
\* failed before the first suspension of its pipeline (extraction, text
\* check), which is the move through processing/ seen as one step
LifecycleStep(f) ==
    \/ DirsOf(f)' = DirsOf(f)
    \/ \E m \in LifecycleMoves :
          /\ DirsOf(f) = {m[1]}
          /\ DirsOf(f)' = {m[2]}
          /\ m = <<"raw", "failed">> =>
                hist'[f].faults \cap {"claim_io", "extract_error", "short_text"} # {}

\* the outcome lists that name file f
OutcomesOf(f) ==
    {l \in {"success", "failed", "skipped_duplicate"} : f \in Sources(report[l])}

\* C19: every discovered file goes raw -> processing -> completed or failed
\* (raw -> failed when the claim never happened), never leaves completed/ or
\* failed/, and is reported under the one outcome of its terminal directory:
\* a file in failed/ only as failed, a file in completed/ only as success or
\* as skipped_duplicate, whatever stage failed.
C19_LifecycleOrdering ==
    /\ [][\A f \in Files : LifecycleStep(f)]_vars
    /\ [](\A f \in Files :
             /\ f \in fs["failed"] => OutcomesOf(f) \subseteq {"failed"}
             /\ f \in fs["completed"] =>
                   OutcomesOf(f) \in {{}, {"success"}, {"skipped_duplicate"}}
             /\ (pc[f] = "finished" /\ f \in fs["completed"]) => OutcomesOf(f) # {})

\* --------------------------------------------------------------------- C20
\* C20: an entry is written for a file only when the file has been claimed
\* (is in processing/), its extraction gave usable text, its analysis has
\* run and returns without error, and the entry carries the id allocated
\* from the knowledge base as it is at that moment; and a file is moved to
\* completed/ only from processing/ and only with its entry written or a
\* duplicate destination detected.
C20_StageOrdering ==
    [][/\ \A e \in kb' \ kb :
             /\ e.body \in fs["processing"]
             /\ extracted[e.body] = "long"
             /\ pc[e.body] \in {"pass2", "pass3"}
             /\ hist[e.body].calls1 >= 1
             /\ ~Raised(e.body)'
             /\ e.id = e.hdr
             /\ \E ym \in Dates :
                   e.hdr = generate_entry_id(ID_PREFIX_MAP(FileType(e.body)), kb, ym)
       /\ \A f \in fs'["completed"] \ fs["completed"] :
             /\ f \in fs["processing"]
             /\ \/ \E e \in kb' : e.body = f
                \/ /\ "duplicate" \in hist'[f].faults
                   /\ \E e \in kb : \E i \in RecordsOf(report'.skipped_duplicate, f) :
                         PathOf(e) = report'.skipped_duplicate[i].output]_vars

C20_Witness ==
    \E f, g \in Files :
        /\ f \in fs["completed"] /\ \E e \in kb : e.body = f
        /\ g \in fs["completed"] /\ "duplicate" \in hist[g].faults

\* --------------------------------------------------------------------- C21
\* only transient failures of the analysis calls went wrong for f: answers
\* that cannot be parsed or lack fields (they leave no fault) and network
\* errors or timeouts of a call
TransientOnly(f) == hist[f].faults \subseteq {"pass1_error", "api_error"}

\* C21: a file for which nothing but transient analysis failures went wrong
\* (malformed answers, network errors, timeouts) never ends as Failed: it is
\* not moved to failed/, not recorded in report.failed, and ends in
\* completed/ with its success record.
C21_TransientNeverFails ==
    \A f \in Files :
        (pc[f] = "finished" /\ TransientOnly(f))
            => /\ f \notin fs["failed"]
               /\ f \notin Sources(report.failed)
               /\ f \in fs["completed"]
               /\ f \in Sources(report.success) \cup Sources(report.skipped_duplicate)

\* --------------------------------------------------------------------- C22
\* the task waits for a slot of the analyzer or holds one
InAnalyze(f) == pc[f] = "sem" \/ InAnalysis(f)

\* process_file returned text too short to be analysed, or the sentinel
Unusable(f) ==
    extracted[f] = "short" \/ hist[f].faults \cap {"extract_error", "short_text"} # {}

\* C22: a file whose extraction returned empty or near-empty text, or text
\* with the error sentinel, goes from claimed to Failed directly: it never
\* waits for or holds an analysis slot, no pass-1 call is made for it, no
\* entry is written for it, and it ends in failed/ with one failed record.
C22_UnusableExtractionFailsDirectly ==
    \A f \in Files :
        Unusable(f) =>
            /\ ~InAnalyze(f)
            /\ hist[f].calls1 = 0
            /\ ~\E e \in kb : e.body = f
            /\ pc[f] = "finished" =>
                  /\ DirsOf(f) = {"failed"}
                  /\ Cardinality(RecordsOf(report.failed, f)) = 1
                  /\ f \notin Sources(report.success) \cup Sources(report.skipped_duplicate)

\* --------------------------------------------------------------------- C23
\* the one thread of the event loop is not inside a synchronous call
LoopFree == \A f \in Files : pc[f] # "extract"

\* a task is started: it claims its file and calls process_file, a plain
\* call on the thread of the event loop
BeginExtraction(f, faults) ==
    /\ runpc = "gather"
    /\ LoopFree
    /\ f \in Range(files)
    /\ pc[f] = "new"
    /\ \A g \in Range(files) : g < f => pc[g] # "new"
    /\ \E io \in SUBSET (faults \cap {"claim", "fail"}) :
          Becomes(
            IF "claim" \in io \/ f \notin fs["raw"]
            THEN FailTransition(Noted(World, f, "claim_io"), f, "claim_io", io)
            ELSE [World EXCEPT !.fs = Moved(@, f, "raw", "processing"),
                               !.pc[f] = "extract"])
    /\ TaskFrame

\* process_file returns, after however long; the task runs on to its first
\* suspension
EndExtraction(f, faults) ==
    /\ runpc = "gather"
    /\ pc[f] = "extract"
    /\ \E io \in SUBSET (faults \cap {"fail"}), ext \in Extractions :
          Becomes(AfterExtraction(World, f, ext, io))
    /\ TaskFrame

\* a suspended task is resumed by the event loop
Resume(f, faults) ==
    /\ LoopFree
    /\ \/ Acquire(f, faults)
       \/ PreprocessDone(f, faults)
       \/ Pass1Response(f, faults)
       \/ Pass2Response(f, faults)
       \/ Pass3Response(f, faults)

StepLoop(f) ==
    \/ BeginExtraction(f, StageFaults)
    \/ EndExtraction(f, StageFaults)
    \/ Resume(f, StageFaults)

NextLoop ==
    \/ RunStart
    \/ \E f \in Files : StepLoop(f)
    \/ RunFinish

\* the run with the extraction call taking time
SpecLoop == Init /\ [][NextLoop]_vars

\* C23: while the extraction call of one file is in progress, however long
\* it takes, every other file whose analysis is under way can take its next
\* step, so that the other files go on to a terminal state.
C23_NoPoolBlocking ==
    \A f, g \in Discovered :
        (f # g /\ pc[f] = "extract" /\ InAnalysis(g)) => ENABLED StepLoop(g)

\* --------------------------------------------------------------------- C24
\* the verdict of the analysis as a success record shows it: confidence
\* below the threshold, or a quality score below it that is not zero
Flagged(r) ==
    \/ r.confidence < ReviewThreshold
    \/ r.quality_score < ReviewThreshold /\ r.quality_score > 0

\* C24: at every point of a run every manual_review record is also a success
\* record (same source, same entry_id) of a file in completed/ that has no
\* failed or skipped_duplicate record, and every success record the analysis
\* flagged has its manual_review record.
C24_ManualReviewRefinesSuccess ==
    /\ \A i \in 1..Len(report.manual_review) :
          LET m == report.manual_review[i]
          IN  /\ \E j \in 1..Len(report.success) :
                    /\ report.success[j].source = m.record.source
                    /\ report.success[j].entry_id = m.record.entry_id
                    /\ report.success[j] = m.record
              /\ DirsOf(m.record.source) = {"completed"}
              /\ m.record.source \notin
                    Sources(report.failed) \cup Sources(report.skipped_duplicate)
    /\ \A j \in 1..Len(report.success) :
          Flagged(report.success[j]) =>
              \E i \in 1..Len(report.manual_review) :
                  report.manual_review[i].record = report.success[j]

C24_Witness ==
    /\ report.failed # <<>>
    /\ \E j \in 1..Len(report.success) :
          /\ Flagged(report.success[j])
          /\ report.success[j].confidence >= ReviewThreshold
          /\ \E i \in 1..Len(report.manual_review) :
                report.manual_review[i].record = report.success[j]

\* a success record that is not flagged is also reached
C24_Unflagged ==
    /\ report.manual_review # <<>>
    /\ \E j \in 1..Len(report.success) : ~Flagged(report.success[j])

\* --------------------------------------------------------------------- C25
\* another process removes a discovered file from raw/ before its pipeline
\* has claimed it
ExternalRemove(f) ==
    /\ runpc = "gather"
    /\ f \in Range(files)
    /\ pc[f] = "new"
    /\ f \in fs["raw"]
    /\ fs' = [fs EXCEPT !["raw"] = @ \ {f}]
    /\ UNCHANGED <<config, invocations, runpc, files, tmp_images, saved, kb,
                   report, sem, waiters, pc, attempt, extracted, result, hist>>

NextExt ==
    \/ Next
    \/ \E f \in Files : ExternalRemove(f)

\* the run with external interference in raw/
SpecExt == Init /\ [][NextExt]_vars

\* the file is in none of the lifecycle directories any more
Vanished(f) == DirsOf(f) = {}

\* C25: a discovered file that is gone from raw/ when its pipeline claims it
\* gets exactly one failed record, carrying the IO error of the claim, and no
\* other record, call or entry; its pipeline ends without raising; and when
\* the pipelines are over every other file is in completed/ or failed/ with
\* exactly one record of the matching outcome.
C25_ClaimFailureLocal ==
    \A f \in Discovered :
        Vanished(f) =>
            /\ pc[f] \in {"new", "finished"}
            /\ pc[f] = "finished" =>
                  /\ Cardinality(RecordsOf(report.failed, f)) = 1
                  /\ \A i \in RecordsOf(report.failed, f) :
                        report.failed[i].error = "claim_io"
                  /\ f \notin Sources(report.success) \cup Sources(report.skipped_duplicate)
                  /\ hist[f].calls1 = 0
                  /\ ~\E e \in kb : e.body = f
            /\ AllOver =>
                  \A g \in Discovered :
                      ~Vanished(g) =>
                          /\ pc[g] = "finished"
                          /\ Terminal(g)
                          /\ Cardinality(RecordsOf(report.success, g))
                               + Cardinality(RecordsOf(report.skipped_duplicate, g))
                               + Cardinality(RecordsOf(report.failed, g)) = 1
                          /\ g \in fs["failed"] <=> g \in Sources(report.failed)

C25_Witness ==
    /\ AllOver
    /\ \E f, g \in Discovered :
          /\ Vanished(f) /\ f \in Sources(report.failed)
          /\ g \in fs["completed"] /\ g \in Sources(report.success)

\* --------------------------------------------------------------------- C26
\* the files inside the analysis stage: they hold a slot of the semaphore
Holders == {f \in Files : InAnalysis(f)}

\* C26: at every instant at most N files hold a slot of the analyzer's
\* semaphore and the free slots are exactly those not held, so that a slot
\* is given back whenever an analysis ends (with a result, with an error, or
\* cut short); only files that never got a slot are queued, and once the
\* pipelines are over all N slots are free again.
C26_SlotsNeverLeak ==
    /\ Cardinality(Holders) <= workers
    /\ sem = workers - Cardinality(Holders)
    /\ Range(waiters) = {f \in Files : pc[f] = "sem"}
    /\ Range(waiters) \cap Holders = {}
    /\ AllOver => sem = workers /\ waiters = <<>>

C26_Witness ==
    /\ workers = 1
    /\ sem = 0
    /\ \E f, g \in Files :
          /\ pc[f] = "finished" /\ "api_error" \in hist[f].faults
          /\ InAnalysis(g) /\ hist[g].calls1 >= 1

\* --------------------------------------------------------------------- C27
\* C27: the step of a run that writes an entry for a file is the step in
\* which the id was allocated and the destination checked: the counter of the
\* id is above every numeric run the knowledge base holds for the prefix just
\* before the write, the destination did not exist then, the same step moves
\* the file to completed/ and records it once in success with that id, and
\* no other pipeline changes position, directory or records in that step.
C27_AtomicRenderAndStore ==
    [][\A e \in kb' \ kb :
          LET f == e.body
          IN  /\ kb' \ kb = {e}
              /\ \A n \in NumericRuns(kb, e.hdr.prefix) : n < Counter(e.hdr)
              /\ ~PathExists(kb, PathOf(e))
              /\ f \in fs["processing"] /\ f \in fs'["completed"]
              /\ RecordsOf(report.success, f) = {}
              /\ Cardinality(RecordsOf(report'.success, f)) = 1
              /\ \A i \in RecordsOf(report'.success, f) :
                    /\ report'.success[i].entry_id = e.hdr
                    /\ report'.success[i].output = PathOf(e)
              /\ \A g \in Files \ {f} :
                    /\ pc'[g] = pc[g]
                    /\ DirsOf(g)' = DirsOf(g)
                    /\ RecordsOf(report'.success, g) = RecordsOf(report.success, g)]_vars

C27_Witness ==
    /\ workers >= 2
    /\ \E e1, e2 \in kb \ kb0 :
          /\ e1.body # e2.body
          /\ e1.hdr.prefix = e2.hdr.prefix
          /\ Counter(e1.hdr) + 1 = Counter(e2.hdr)
          /\ {e1.body, e2.body} \subseteq fs["completed"] \cap Sources(report.success)

\* --------------------------------------------------------------------- C28
\* C28: when the pipelines of a run have all finished, a discovered file is
\* recorded in report.failed exactly if it is in failed/, is recorded in
\* report.success or report.skipped_duplicate exactly if it is in
\* completed/, and has exactly one record in the three lists together.
C28_ReportAgreesWithDirectories ==
    (AllOver /\ \A f \in Discovered : pc[f] = "finished") =>
        \A f \in Discovered :
            /\ f \in Sources(report.failed) <=> f \in fs["failed"]
            /\ f \in Sources(report.success) \cup Sources(report.skipped_duplicate)
                  <=> f \in fs["completed"]
            /\ Cardinality(RecordsOf(report.success, f))
                 + Cardinality(RecordsOf(report.failed, f))
                 + Cardinality(RecordsOf(report.skipped_duplicate, f)) = 1

\* --------------------------------------------------------------------- C29
\* entry files of a knowledge base kept by hand: one as the pipeline writes
\* them (file name <header id>_<title>), one whose header id is only the
\* beginning of the id in its file name (ML_<ym> as the header of the file
\* ML_<ym>_<n>_T1.md), and one whose header cannot be read
KbEntries ==
    { Entry("articles", [prefix |-> "ML", nums |-> <<StartYM, 2>>], "T1",
            [prefix |-> "ML", nums |-> <<StartYM, 2>>], 0),
      Entry("articles", [prefix |-> "ML", nums |-> <<StartYM, StartYM + 1>>], "T1",
            [prefix |-> "ML", nums |-> <<StartYM>>], 0),
      Entry("articles", [prefix |-> "ML", nums |-> <<StartYM, 1>>], "T1",
            NoId, 0) }

\* the state after construction of a real run over any of these knowledge
\* bases
InitKb ==
    /\ workers \in 1..MaxWorkers
    /\ dry_run = FALSE
    /\ file_type_filter = NoFilter
    /\ verification_enabled = TRUE
    /\ runpc = "init"
    /\ files = <<>>
    /\ fs = [d \in LifecycleDirs |-> IF d = "raw" THEN Files ELSE {}]
    /\ tmp_images = FALSE
    /\ saved = FALSE
    /\ kb \in SUBSET KbEntries
    /\ kb0 = kb
    /\ report = PipelineReport
    /\ sem = workers
    /\ waiters = <<>>
    /\ pc = [f \in Files |-> "new"]
    /\ attempt = [f \in Files |-> 0]
    /\ extracted = [f \in Files |-> "none"]
    /\ result = [f \in Files |-> AnalysisResult]
    /\ hist = [f \in Files |-> NoHist]
    /\ clock = 0
    /\ run_ids = <<[at |-> clock, run_id |-> strftime(clock)]>>

SpecKb == InitKb /\ [][Next]_vars

\* the file name of e begins with the id its header declares
BeginsWith(e) ==
    /\ e.hdr # NoId
    /\ e.hdr.prefix = e.id.prefix
    /\ Len(e.hdr.nums) <= Len(e.id.nums)
    /\ SubSeq(e.id.nums, 1, Len(e.hdr.nums)) = e.hdr.nums

\* the file name of e is the id its header declares, followed by the title
NamedById(e) == e.hdr # NoId /\ e.id = e.hdr

NoDuplicateSkipped ==
    /\ report.skipped_duplicate = <<>>
    /\ \A f \in Files : "duplicate" \notin hist[f].faults

\* C29 as stated: if every entry file the run starts with has a readable
\* header id and a file name that begins with that id, no file of the run
\* ends as SkippedDuplicate.
C29_NoDuplicateIfNameBeginsWithId ==
    (\A e \in kb0 : BeginsWith(e)) => NoDuplicateSkipped

\* C29 amended: if every entry file the run starts with has a readable
\* header id and is named <that id>_<title>.md, the whole id and not only a
\* beginning of it, then no file of the run ends as SkippedDuplicate: every
\* destination carries an id whose counter is above every numeric run of
\* every id of the prefix in the knowledge base.
C29_NoDuplicateIfNamedById ==
    (\A e \in kb0 : NamedById(e)) =>
        /\ NoDuplicateSkipped
        /\ \A e1, e2 \in kb : PathOf(e1) = PathOf(e2) => e1 = e2
        /\ \A f \in Files : \A r \in SuccessOf(f) :
              \A e \in kb0 : e.hdr.prefix = r.entry_id.prefix =>
                  \A i \in 1..Len(e.hdr.nums) : e.hdr.nums[i] < Counter(r.entry_id)

C29_Witness ==
    /\ kb0 # {}
    /\ \A e \in kb0 : NamedById(e)
    /\ \E f, g \in Files :
          /\ f # g
          /\ \E r \in SuccessOf(f), q \in SuccessOf(g), e \in kb0 :
                /\ r.output.title = e.title /\ q.output.title = e.title
                /\ r.output.dir = e.dir /\ q.output.dir = e.dir
                /\ r.entry_id.prefix = e.hdr.prefix /\ q.entry_id.prefix = e.hdr.prefix

\* --------------------------------------------------------------------- C30
\* the entries the run has written for file f
EntriesOf(f) == {e \in kb : e.body = f}

\* C30: a file recorded as Failed has no entry in the knowledge base,
\* whichever step failed (store step and move to completed/ included), and a
\* file whose pipeline has finished has an entry only if it is recorded in
\* success.
C30_FailedLeavesNoEntry ==
    \A f \in Files :
        /\ f \in Sources(report.failed) => EntriesOf(f) = {}
        /\ (pc[f] = "finished" /\ EntriesOf(f) # {}) => f \in Sources(report.success)

\* --------------------------------------------------------------------- C31
OldFiles == {Old(f) : f \in Files}

\* directories in which an earlier run can have left files
ResultDirs == {"processing", "completed", "failed"}

\* the state after construction when earlier runs have left files with the
\* names of files that are now in raw/
InitOld ==
    /\ workers \in 1..MaxWorkers
    /\ dry_run = FALSE
    /\ file_type_filter = NoFilter
    /\ verification_enabled = TRUE
    /\ runpc = "init"
    /\ files = <<>>
    /\ \E left \in [ResultDirs -> SUBSET OldFiles] :
          fs = [d \in LifecycleDirs |-> IF d = "raw" THEN Files ELSE left[d]]
    /\ tmp_images = FALSE
    /\ saved = FALSE
    /\ kb = {}
    /\ kb0 = kb
    /\ report = PipelineReport
    /\ sem = workers
    /\ waiters = <<>>
    /\ pc = [f \in Files |-> "new"]
    /\ attempt = [f \in Files |-> 0]
    /\ extracted = [f \in Files |-> "none"]
    /\ result = [f \in Files |-> AnalysisResult]
    /\ hist = [f \in Files |-> NoHist]
    /\ clock = 0
    /\ run_ids = <<[at |-> clock, run_id |-> strftime(clock)]>>

SpecOld == InitOld /\ [][Next]_vars

\* C31: a file that an earlier run left in processing/, completed/ or
\* failed/ stays where it is in every step of the run: claiming, completing
\* or failing a file of the same name neither replaces it nor moves it.
C31_EarlierResultsPreserved ==
    [][\A d \in ResultDirs : \A x \in OldFiles : x \in fs[d] => x \in fs'[d]]_vars

====
